---- MODULE Spec2Model ----
(***************************************************************************)
(* A model of Botan's PSS signature padding (emsa_pssr/pssr.cpp): the two  *)
(* codec functions pss_encode and pss_verify, and the PSSR / PSS_Raw       *)
(* objects that call them through encoding_of and verify.                  *)
(*                                                                         *)
(* Bytes are integers 0..255.  A C++ array index i is the sequence index   *)
(* i+1.  The HashFunction object is a record: its output length and the    *)
(* bytes fed to it since the last final().                                 *)
(***************************************************************************)
EXTENDS Integers, Sequences, FiniteSets, TLC

\* ------------------------------------------------------------------ bounds

\* Longest salt an explicitly configured object asks its RNG for.
MaxSaltLen == 2
\* pss_encode is tried at every output_bits from 0 to its floor plus this.
MaxSlack == 8
\* Bytes PSSR::update may feed the hash without a raw_data call.
MaxPending == 1
\* Longest caller-made (not encoded) representation handed to verify.
MaxReprLen == 3
\* Longest DB of a representation forged by a caller who knows the format.
MaxDbLen == 3
\* Most bytes PSS_Raw::update is let to gather before a raw_data call.
MaxMsgLen == 5
\* The width in bits that size_t is scaled down to for Buffered_Filter.
SizeBits == 6
\* Largest main_block_mod below the wrap-around ones, longest single write
\* and most bytes written to one Buffered_Filter.
MaxBlockMod == 3
MaxWrite == 8
MaxStream == 9
\* Most random bytes prepared for one RNG of the KAT harness.
MaxPrepared == 4

\* --------------------------------------------------------- program constants

\* The trailer byte 0xBC.
TrailerByte == 188
\* The marker byte 0x01 between the zero padding and the salt.
MarkerByte == 1
\* The length of the zero prefix of the hashed message M'.
PaddingLen == 8

\* ------------------------------------------------------------- byte helpers

Pow2(n) == 2 ^ n

Bit(x, i) == (x \div Pow2(i)) % 2

\* a ^ b on bytes.
XorByte(a, b) ==
  LET x(i) == ((Bit(a, i) + Bit(b, i)) % 2) * Pow2(i)
  IN  x(0) + x(1) + x(2) + x(3) + x(4) + x(5) + x(6) + x(7)

\* b & (0xFF >> n) on a byte, 0 <= n <= 8.
AndShr(b, n) == b % Pow2(8 - n)

Zeros(n) == [i \in 1..n |-> 0]

\* All sequences over S of length exactly n, and of length lo..hi.
RECURSIVE SeqsOfLen(_, _)
SeqsOfLen(S, n) ==
  IF n <= 0 THEN {<<>>}
  ELSE {Append(s, b) : s \in SeqsOfLen(S, n - 1), b \in S}

SeqsUpTo(S, lo, hi) == UNION {SeqsOfLen(S, n) : n \in lo..hi}

\* ------------------------------------------------- collaborators (interfaces)

\* (bits + 7) / 8
ceil_tobytes(bits) == (bits + 7) \div 8

\* Index of the highest set bit plus one; 0 for 0.
high_bit(n) ==
  IF n = 0 THEN 0 ELSE CHOOSE k \in 1..8 : Pow2(k - 1) <= n /\ n < Pow2(k)

\* The test hash: a running 16-bit state absorbs the input byte by byte and
\* each output byte is squeezed from the final state.
HashModulus == 65521

HashAbsorb(acc, b) == (acc * 31 + b + 7) % HashModulus

RECURSIVE HashState(_, _)
HashState(acc, input) ==
  IF input = <<>> THEN acc
  ELSE HashState(HashAbsorb(acc, Head(input)), Tail(input))

HashFn(len, input) ==
  LET acc == HashState(Len(input) + 1, input)
  IN  [j \in 1..len |-> ((acc * (j + 2) + 97 * j) \div 7) % 256]

\* HashFunction::update and HashFunction::final on the hash object.
hash_update(hash, bytes) == [hash EXCEPT !.buf = @ \o bytes]

hash_final(hash) == HashFn(hash.output_length, hash.buf)

hash_reset(hash) == [hash EXCEPT !.buf = <<>>]

\* The counter of MGF1 as update_be feeds it: four bytes, big-endian.
CounterBE(c) == <<0, 0, c \div 256, c % 256>>

\* One MGF1 block: Hash(pending || seed || counter).  Only the first block
\* sees bytes left in the hash; final() resets it.
Mgf1Block(hash, seed, c) ==
  hash_final(hash_update(hash_update(IF c = 0 THEN hash ELSE hash_reset(hash), seed),
                         CounterBE(c)))

\* mgf1_mask(hash, in, in_len, out, out_len): XORs out[0..out_len) with the
\* blocks Hash(in || counter), counter = 0, 1, ...
mgf1_mask(hash, seed, out, out_len) ==
  LET hl == hash.output_length
      m(i) == Mgf1Block(hash, seed, (i - 1) \div hl)[((i - 1) % hl) + 1]
  IN  [out |-> [i \in 1..Len(out) |-> IF i <= out_len THEN XorByte(out[i], m(i)) ELSE out[i]],
       hash |-> IF out_len > 0 THEN hash_reset(hash) ELSE hash]

\* ------------------------------------------------------------- pss_encode

\* A throw that comes only after hash.update(padding).
EncodeThrow_AfterUpdate(hash) ==
  [err |-> "Encoding_Error", EM |-> <<>>, hash |-> hash_update(hash, Zeros(PaddingLen))]

\* The result of a throw: err names the exception, nothing is returned and
\* the hash object is as the call found it.
EncodeThrow(hash) == [err |-> "Encoding_Error", EM |-> <<>>, hash |-> hash]

\* A floor one bit too low.
EncodeFloor_OffByOne(HASH_SIZE, salt_len) == 8 * HASH_SIZE + 8 * salt_len + 8

\* The smallest output_bits accepted: 8 * HASH_SIZE + 8 * salt.size() + 9.
EncodeFloor(HASH_SIZE, salt_len) == 8 * HASH_SIZE + 8 * salt_len + 9

\* A shift taken from the bit count alone.
Db0Shift_BitsMod8(output_length, output_bits) == output_bits % 8

\* The shift of db0_mask = 0xFF >> (8 * output_length - output_bits).
Db0Shift(output_length, output_bits) == 8 * output_length - output_bits

\* M' without its eight zero bytes.
HashMPrime_NoPadding(hash, msg, salt) == hash_update(hash_update(hash, msg), salt)

\* hash.update(padding); hash.update(msg); hash.update(salt): the hash
\* object holding M' = 8 zero bytes || msg || salt (after what it held).
HashMPrime(hash, msg, salt) ==
  hash_update(hash_update(hash_update(hash, Zeros(PaddingLen)), msg), salt)

\* The salt appended before the marker.
StuffDB_SaltFirst(output_length, salt, H_size) ==
  Zeros(output_length - (1 + Len(salt) + H_size + 1)) \o salt \o <<MarkerByte>>
    \o Zeros(H_size + 1)

\* EM(output_length) after the stuffer's first three appends: the zero
\* bytes, 0x01 and the salt, the rest of the buffer still zero.
StuffDB(output_length, salt, H_size) ==
  Zeros(output_length - (1 + Len(salt) + H_size + 1)) \o <<MarkerByte>> \o salt
    \o Zeros(H_size + 1)

\* EM[0] &= db0_mask, then the stuffer appends H and 0xBC after DB.
FinishEM(masked, db_len, shift, H) ==
  [err |-> "none",
   EM |-> SubSeq([masked.out EXCEPT ![1] = AndShr(@, shift)], 1, db_len)
            \o H \o <<TrailerByte>>,
   hash |-> masked.hash]

\* pss_encode from "std::vector<uint8_t> H = hash.final_stdvec()" on.
EncodeWithH(hash, salt, output_bits, output_length, H) ==
  FinishEM(mgf1_mask(hash_reset(hash), H,
                     StuffDB(output_length, salt, Len(H)),
                     output_length - hash.output_length - 1),
           output_length - hash.output_length - 1,
           Db0Shift(output_length, output_bits),
           H)

pss_encode(hash, msg, salt, output_bits) ==
  IF Len(msg) # hash.output_length THEN EncodeThrow(hash)
  ELSE IF output_bits < EncodeFloor(hash.output_length, Len(salt)) THEN EncodeThrow(hash)
  ELSE EncodeWithH(hash, salt, output_bits, ceil_tobytes(output_bits),
                   hash_final(HashMPrime(hash, msg, salt)))

\* ------------------------------------------------------------- pss_verify

\* A return of false; out_salt_size is not written.
VerifyFalse(hash) == [ok |-> FALSE, wrote |-> FALSE, salt_size |-> 0, hash |-> hash,
                      fault |-> FALSE]

\* An access outside an array (or a size_t subtraction below zero used as a
\* length): the call has no defined result.
VerifyFault(hash) == [ok |-> FALSE, wrote |-> FALSE, salt_size |-> 0, hash |-> hash,
                      fault |-> TRUE]

\* A floor that forgets the nine bits of marker and trailer.
KeyTooSmall_NoNine(key_bits, HASH_SIZE) == key_bits < 8 * HASH_SIZE

\* key_bits < 8 * HASH_SIZE + 9
KeyTooSmall(key_bits, HASH_SIZE) == key_bits < 8 * HASH_SIZE + 9

\* Only the lower bound on the size.
BadReprSize_NoUpper(size, key_bytes) == size <= 1

\* pss_repr.size() > key_bytes || pss_repr.size() <= 1
BadReprSize(size, key_bytes) == size > key_bytes \/ size <= 1

\* The comparison with the trailer inverted.
BadTrailer_Inverted(pss_repr) == pss_repr[Len(pss_repr)] = TrailerByte

\* pss_repr[pss_repr.size() - 1] != 0xBC
BadTrailer(pss_repr) == pss_repr[Len(pss_repr)] # TrailerByte

\* No padding: the bytes as they came.
PadToKey_None(pss_repr, key_bytes) == pss_repr

\* The zero bytes appended behind pss_repr.
PadToKey_Right(pss_repr, key_bytes) ==
  IF Len(pss_repr) < key_bytes
  THEN pss_repr \o Zeros(key_bytes - Len(pss_repr))
  ELSE pss_repr

\* coded: pss_repr behind key_bytes - pss_repr.size() zero bytes.
PadToKey(pss_repr, key_bytes) ==
  IF Len(pss_repr) < key_bytes
  THEN Zeros(key_bytes - Len(pss_repr)) \o pss_repr
  ELSE pss_repr

\* No spare bits, whatever the key size.
TopBits_Zero(key_bits) == 0

\* top_bits = 8 * ((key_bits + 7) / 8) - key_bits
TopBits(key_bits) == 8 * ((key_bits + 7) \div 8) - key_bits

\* A scan that leaves salt_offset on the marker itself.
RECURSIVE MarkerScan_OffByOne(_, _, _)
MarkerScan_OffByOne(DB, DB_size, j) ==
  IF j = DB_size THEN [exit |-> "end", salt_offset |-> 0]
  ELSE IF DB[j + 1] = MarkerByte THEN [exit |-> "marker", salt_offset |-> j]
  ELSE IF DB[j + 1] # 0 THEN [exit |-> "reject", salt_offset |-> 0]
  ELSE MarkerScan_OffByOne(DB, DB_size, j + 1)

\* A scan that steps over bytes that are neither 0x00 nor 0x01.
RECURSIVE MarkerScan_SkipNonZero(_, _, _)
MarkerScan_SkipNonZero(DB, DB_size, j) ==
  IF j = DB_size THEN [exit |-> "end", salt_offset |-> 0]
  ELSE IF DB[j + 1] = MarkerByte THEN [exit |-> "marker", salt_offset |-> j + 1]
  ELSE MarkerScan_SkipNonZero(DB, DB_size, j + 1)

\* The marker scan, for(j = 0; j != DB_size; ++j): "marker" with the
\* salt_offset it sets, "reject" for a byte that is neither 0x00 nor 0x01,
\* "end" when the loop runs out with salt_offset still 0.
RECURSIVE MarkerScan(_, _, _)
MarkerScan(DB, DB_size, j) ==
  IF j = DB_size THEN [exit |-> "end", salt_offset |-> 0]
  ELSE IF DB[j + 1] = MarkerByte THEN [exit |-> "marker", salt_offset |-> j + 1]
  ELSE IF DB[j + 1] # 0 THEN [exit |-> "reject", salt_offset |-> 0]
  ELSE MarkerScan(DB, DB_size, j + 1)

\* M' recomputed without the salt found.
HashRecomputed_NoSalt(hash, message_hash, DB, salt_offset, salt_size) ==
  hash_update(hash_update(hash, Zeros(PaddingLen)), message_hash)

\* hash.update(padding); hash.update(message_hash);
\* hash.update(&DB[salt_offset], salt_size): the hash object holding M'.
HashRecomputed(hash, message_hash, DB, salt_offset, salt_size) ==
  hash_update(hash_update(hash_update(hash, Zeros(PaddingLen)), message_hash),
              SubSeq(DB, salt_offset + 1, salt_offset + salt_size))

\* H compared with itself.
CompareH_Self(hash, H, H2, salt_size) ==
  [ok |-> H = H, wrote |-> H = H, salt_size |-> salt_size,
   hash |-> hash_reset(hash), fault |-> FALSE]

\* ok = CT::is_equal(H, H2.data(), HASH_SIZE), and the write of
\* *out_salt_size when ok.
CompareH(hash, H, H2, salt_size) ==
  [ok |-> H = H2, wrote |-> H = H2, salt_size |-> IF H = H2 THEN salt_size ELSE 0,
   hash |-> hash_reset(hash), fault |-> FALSE]

\* pss_verify from "if(salt_offset == 0)" on, scan being what the loop left.
VerifyScanned(hash, message_hash, DB, DB_size, H, scan) ==
  IF scan.exit = "reject" THEN VerifyFalse(hash)
  ELSE IF scan.salt_offset = 0 THEN VerifyFalse(hash)
  ELSE CompareH(hash, H,
                hash_final(HashRecomputed(hash, message_hash, DB, scan.salt_offset,
                                          DB_size - scan.salt_offset)),
                DB_size - scan.salt_offset)

\* pss_verify from "DB[0] &= 0xFF >> top_bits" on, masked being what
\* mgf1_mask left of coded and of the hash.
VerifyUnmasked(masked, message_hash, DB_size, H, top_bits) ==
  VerifyScanned(masked.hash, message_hash,
                [masked.out EXCEPT ![1] = AndShr(@, top_bits)], DB_size, H,
                MarkerScan([masked.out EXCEPT ![1] = AndShr(@, top_bits)], DB_size, 0))

\* pss_verify from "uint8_t* DB = coded.data()" on.
VerifyCoded(hash, coded, message_hash, key_bits) ==
  IF Len(coded) < 1 THEN VerifyFault(hash)
  ELSE IF TopBits(key_bits) > 8 - high_bit(coded[1]) THEN VerifyFalse(hash)
  ELSE IF Len(coded) < hash.output_length + 1 THEN VerifyFault(hash)
  ELSE VerifyUnmasked(
         mgf1_mask(hash,
                   SubSeq(coded, Len(coded) - hash.output_length,
                          Len(coded) - 1),
                   coded, Len(coded) - hash.output_length - 1),
         message_hash, Len(coded) - hash.output_length - 1,
         SubSeq(coded, Len(coded) - hash.output_length, Len(coded) - 1),
         TopBits(key_bits))

pss_verify(hash, pss_repr, message_hash, key_bits) ==
  IF KeyTooSmall(key_bits, hash.output_length) THEN VerifyFalse(hash)
  ELSE IF Len(message_hash) # hash.output_length THEN VerifyFalse(hash)
  ELSE IF BadReprSize(Len(pss_repr), ceil_tobytes(key_bits)) THEN VerifyFalse(hash)
  ELSE IF Len(pss_repr) < 1 THEN VerifyFault(hash)
  ELSE IF BadTrailer(pss_repr) THEN VerifyFalse(hash)
  ELSE VerifyCoded(hash, PadToKey(pss_repr, ceil_tobytes(key_bits)), message_hash,
                   key_bits)

\* ------------------------------------------------------ the padding objects

\* A policy that never looks at the salt length.
SaltPolicy_Never(r, salt_size_cfg, required) ==
  [ok |-> r.ok, salt_size |-> IF r.wrote THEN r.salt_size ELSE 0,
   hash |-> r.hash, fault |-> r.fault, ret |-> r.ok]

\* A policy that enforces the salt length whatever m_required_salt_len says.
SaltPolicy_Always(r, salt_size_cfg, required) ==
  [ok |-> r.ok, salt_size |-> IF r.wrote THEN r.salt_size ELSE 0,
   hash |-> r.hash, fault |-> r.fault,
   ret |-> IF (IF r.wrote THEN r.salt_size ELSE 0) # salt_size_cfg THEN FALSE ELSE r.ok]

\* The tail of PSSR::verify and PSS_Raw::verify after the call r of
\* pss_verify: salt_size is the local that pss_verify writes through
\* out_salt_size only when ok, and the salt length policy decides on it.
SaltPolicy(r, salt_size_cfg, required) ==
  [ok |-> r.ok, salt_size |-> IF r.wrote THEN r.salt_size ELSE 0,
   hash |-> r.hash, fault |-> r.fault,
   ret |-> IF required /\ (IF r.wrote THEN r.salt_size ELSE 0) # salt_size_cfg
           THEN FALSE ELSE r.ok]

PSSR_verify(hash, salt_size_cfg, required, coded, raw, key_bits) ==
  SaltPolicy(pss_verify(hash, coded, raw, key_bits), salt_size_cfg, required)

PSS_Raw_verify(hash, salt_size_cfg, required, coded, raw, key_bits) ==
  SaltPolicy(pss_verify(hash, coded, raw, key_bits), salt_size_cfg, required)

\* ------------------------------------------------------------------ inputs

\* Output lengths of the hash functions an object is built over.
HashSizes == {1, 2, 4}

\* The digest and salt of the worked example, repeated or cut to length n.
VectorDigest == <<1, 2, 3, 4>>
VectorSalt == <<170, 187, 204, 221>>
Cycle(v, n) == [i \in 1..n |-> v[((i - 1) % Len(v)) + 1]]

DigestBytes == {255}
SaltBytes == {0, 1}
ReprBytes == {0, 1, 188}

\* Messages handed to encoding_of as the digest: the example digest at the
\* hash's length, the same with its last byte changed, and wrong lengths.
Digests(h) ==
  {Cycle(VectorDigest, h)}
    \cup {[Cycle(VectorDigest, h) EXCEPT ![h] = b] : b \in DigestBytes}
    \cup {Cycle(VectorDigest, h - 1), Cycle(VectorDigest, h + 1)}

\* Digests handed to verify: those, and the example with its first byte changed.
RawDigests(h) ==
  Digests(h) \cup {[Cycle(VectorDigest, h) EXCEPT ![1] = b] : b \in DigestBytes}

\* Where an encoded representation is changed: its first byte, the last byte
\* of DB, the first byte of H and the trailer.
TamperAt(em, h) == {1, Len(em) - h - 1, Len(em) - h, Len(em)}

\* Key sizes tried on caller-made bytes: around the floor of hash length h.
KeyBitsAround(h) == {0, 8 * h, 8 * h + 8, 8 * h + 9, 8 * h + 16, 8 * h + 17}

\* A draw one byte short of what was asked for.
RandomVecs_OneShort(n) ==
  IF n - 1 <= MaxSaltLen THEN SeqsOfLen(SaltBytes, n - 1) ELSE {Cycle(VectorSalt, n - 1)}

\* What rng.random_vec(n) may return.
RandomVecs(n) ==
  IF n <= MaxSaltLen THEN SeqsOfLen(SaltBytes, n) ELSE {Cycle(VectorSalt, n)}

\* The smallest output_bits pss_encode accepts for hash length h, salt length s.
Floor(h, s) == 8 * h + 8 * s + 9

\* Byte i (from 1) of Hash(seed || 0) || Hash(seed || 1) || ... for a hash
\* of h bytes, as a signer other than the object under test computes it.
MaskOf(h, seed, i) == HashFn(h, seed \o CounterBE((i - 1) \div h))[((i - 1) % h) + 1]

\* Bytes of a forged DB: zero, the marker, and a byte that is neither.
DbBytes == {0, 1, 2}

\* db masked with MGF1(H), its top bits cleared, then H and the trailer.
ForgedWithH(h, db, H, top) ==
  [i \in 1..Len(db) |->
     IF i = 1 THEN AndShr(XorByte(db[i], MaskOf(h, H, i)), top)
     ELSE XorByte(db[i], MaskOf(h, H, i))]
    \o H \o <<TrailerByte>>

\* A representation made by a caller who knows the format but not its
\* rules: DB is any bytes db, and H is the hash of 8 zero bytes, d and what
\* follows the first p bytes of db.  With db = 0..0 01 salt and p the
\* marker's place this is what a correct signer sends for key size bits.
ForgedEM(h, db, p, d, bits) ==
  ForgedWithH(h, db, HashFn(h, Zeros(PaddingLen) \o d \o SubSeq(db, p + 1, Len(db))),
              8 * (Len(db) + h + 1) - bits)

\* The bytes of a big-endian number without its leading zero bytes.
RECURSIVE StripZeros(_)
StripZeros(em) ==
  IF em # <<>> /\ em[1] = 0 THEN StripZeros(Tail(em)) ELSE em

\* Key sizes of L bytes a forged representation is made for: no spare bits,
\* and seven spare bits.
ForgedKeyBits(L) == {8 * L, 8 * L - 7}

\* ------------------------------------------------------------------- state

VARIABLES
  variant,              \* "PSSR" or "PSS_Raw"
  m_hash,               \* the object's HashFunction
  m_salt_size,
  m_required_salt_len,
  \* the last encoding_of call: arguments, the salt drawn, the hash it found
  msg, salt, output_bits, enc_hash,
  err,                  \* "not_called", "none" or "Encoding_Error"
  EM,                   \* the bytes returned (<<>> when it threw)
  \* the last verify call since then: arguments, the hash it found
  pss_repr, message_hash, key_bits, ver_hash,
  called,               \* whether verify was called after the last encoding_of
  ok,                   \* what pss_verify returned
  salt_size,            \* verify's local salt_size after pss_verify
  ret,                  \* what verify returned
  fault,                \* pss_verify left the bounds of an array
  m_msg,                \* PSS_Raw's message buffer
  fed,                  \* bytes passed to update since the last raw_data call
  \* the last raw_data call: what had been fed, and what it returned
  raw_fed, raw_err, raw_ret,
  raw_prev,             \* how the raw_data call before the last one ended
  \* a Buffered_Filter object
  constructed,          \* "no", "yes" or "Invalid_Argument"
  m_main_block_mod, m_final_minimum,
  m_buffer,             \* the buffer's bytes, Len(m_buffer) its size
  m_buffer_pos,
  calls,                \* the callbacks made for the message being written
  written,              \* bytes written since the last successful end_msg
  n_stream,             \* bytes written to the object in all
  last_op,              \* "none", "write" or "end_msg"
  end_err,              \* how the last end_msg ended: "none" or "Invalid_State"
  oob,                  \* a copy or callback left the buffer's bounds
  underflow,            \* the subtraction of line 48 wrapped around
  \* one run of PK_PQC_KEM_KAT_Test::run_one_test
  kat_pc,               \* the step run_one_test is at
  rng_keygen, rng_encaps,  \* random bytes each Fixed_Output_RNG still holds
  kat_inspected,        \* the RNG each inspect callback was handed, in call order
  kat_result            \* the confirmations recorded in the Test::Result

objvars == <<variant, m_salt_size, m_required_salt_len>>
encvars == <<msg, salt, output_bits, enc_hash, err, EM>>
vervars == <<pss_repr, message_hash, key_bits, ver_hash, called, ok, salt_size, ret, fault>>
rawvars == <<m_msg, fed, raw_fed, raw_err, raw_ret, raw_prev>>
filtvars == <<constructed, m_main_block_mod, m_final_minimum, m_buffer, m_buffer_pos,
              calls, written, n_stream, last_op, end_err, oob, underflow>>
katvars == <<kat_pc, rng_keygen, rng_encaps, kat_inspected, kat_result>>
pssvars == <<objvars, m_hash, encvars, vervars, rawvars>>
vars == <<pssvars, filtvars, katvars>>

NoEncoding ==
  /\ msg = <<>> /\ salt = <<>> /\ output_bits = 0 /\ enc_hash = <<>>
  /\ err = "not_called" /\ EM = <<>>

NoVerify ==
  /\ pss_repr = <<>> /\ message_hash = <<>> /\ key_bits = 0 /\ ver_hash = <<>>
  /\ called = FALSE /\ ok = FALSE /\ salt_size = 0 /\ ret = FALSE /\ fault = FALSE

NoRawData ==
  /\ m_msg = <<>> /\ fed = <<>>
  /\ raw_fed = <<>> /\ raw_err = "not_called" /\ raw_ret = <<>>
  /\ raw_prev = "not_called"

\* No Buffered_Filter object yet.
NoFilter ==
  /\ constructed = "no"
  /\ m_main_block_mod = 0 /\ m_final_minimum = 0
  /\ m_buffer = <<>> /\ m_buffer_pos = 0
  /\ calls = <<>> /\ written = <<>> /\ n_stream = 0
  /\ last_op = "none" /\ end_err = "none"
  /\ oob = FALSE /\ underflow = FALSE

\* run_one_test not entered.
NoKat ==
  /\ kat_pc = "idle"
  /\ rng_keygen = 0 /\ rng_encaps = 0
  /\ kat_inspected = <<>> /\ kat_result = <<>>

\* PSSR::PSSR(hash) and PSS_Raw::PSS_Raw(hash)
ConstructDefault(v, h) ==
  /\ variant = v
  /\ m_hash = [output_length |-> h, buf |-> <<>>]
  /\ m_salt_size = h
  /\ m_required_salt_len = FALSE

\* PSSR::PSSR(hash, salt_size) and PSS_Raw::PSS_Raw(hash, salt_size)
ConstructSalted(v, h, s) ==
  /\ variant = v
  /\ m_hash = [output_length |-> h, buf |-> <<>>]
  /\ m_salt_size = s
  /\ m_required_salt_len = TRUE

Init ==
  /\ \E v \in {"PSSR", "PSS_Raw"}, h \in HashSizes :
        \/ ConstructDefault(v, h)
        \/ \E s \in 0..MaxSaltLen : ConstructSalted(v, h, s)
  /\ NoEncoding
  /\ NoVerify
  /\ NoRawData
  /\ NoFilter
  /\ NoKat

\* PSSR::update(input, length): feeds the hash.
Update(input) ==
  /\ variant = "PSSR"
  /\ Len(fed) + Len(input) <= MaxPending
  /\ m_hash' = hash_update(m_hash, input)
  /\ fed' = fed \o input
  /\ UNCHANGED <<objvars, encvars, vervars, m_msg, raw_fed, raw_err, raw_ret, raw_prev, filtvars, katvars>>

\* PSSR::raw_data(): the hash of what update fed; final() resets the hash.
PSSR_raw_data ==
  /\ variant = "PSSR"
  /\ raw_fed' = fed /\ fed' = <<>>
  /\ raw_err' = "none" /\ raw_prev' = raw_err
  /\ raw_ret' = hash_final(m_hash)
  /\ m_hash' = hash_reset(m_hash)
  /\ UNCHANGED <<objvars, encvars, vervars, m_msg, filtvars, katvars>>

\* PSS_Raw::update(input, length): m_msg.insert(m_msg.end(), ...).
PSS_Raw_update(input) ==
  /\ variant = "PSS_Raw"
  /\ Len(m_msg) + Len(input) <= MaxMsgLen
  /\ m_msg' = m_msg \o input
  /\ fed' = fed \o input
  /\ UNCHANGED <<objvars, m_hash, encvars, vervars, raw_fed, raw_err, raw_ret, raw_prev, filtvars, katvars>>

\* A length check that lets a short buffer through.
RawDataResult_AtMost(swapped, HASH_SIZE) ==
  IF Len(swapped) > HASH_SIZE
  THEN [err |-> "Encoding_Error", ret |-> <<>>]
  ELSE [err |-> "none", ret |-> swapped]

\* PSS_Raw::raw_data() after the swap, swapped being the local ret that
\* now holds what m_msg held: the throw when ret.size() is not
\* m_hash->output_length(), else return ret.
RawDataResult(swapped, HASH_SIZE) ==
  IF Len(swapped) # HASH_SIZE
  THEN [err |-> "Encoding_Error", ret |-> <<>>]
  ELSE [err |-> "none", ret |-> swapped]

\* A copy where the code swaps: the buffer keeps its bytes.
SwapMsg_Copy(buffer) == [ret |-> buffer, m_msg |-> buffer]

\* std::vector<uint8_t> ret; std::swap(ret, m_msg): the new, empty vector
\* and the buffer change places.
SwapMsg(buffer) == [ret |-> buffer, m_msg |-> <<>>]

\* PSS_Raw::raw_data(): the swap comes before the length check, so m_msg
\* is left as the swap leaves it whether the call returns or throws.
PSS_Raw_raw_data ==
  /\ variant = "PSS_Raw"
  /\ raw_fed' = fed /\ fed' = <<>>
  /\ m_msg' = SwapMsg(m_msg).m_msg
  /\ raw_err' = RawDataResult(SwapMsg(m_msg).ret, m_hash.output_length).err
  /\ raw_ret' = RawDataResult(SwapMsg(m_msg).ret, m_hash.output_length).ret
  /\ raw_prev' = raw_err
  /\ UNCHANGED <<objvars, m_hash, encvars, vervars, filtvars, katvars>>

\* What a call r of pss_encode leaves behind.
EncodingReturns(m, bits, drawn, r) ==
  /\ msg' = m /\ salt' = drawn /\ output_bits' = bits
  /\ enc_hash' = m_hash.buf
  /\ err' = r.err
  /\ EM' = r.EM
  /\ m_hash' = r.hash
  /\ pss_repr' = <<>> /\ message_hash' = <<>> /\ key_bits' = 0 /\ ver_hash' = <<>>
  /\ called' = FALSE /\ ok' = FALSE /\ salt_size' = 0 /\ ret' = FALSE
  /\ fault' = FALSE
  /\ UNCHANGED <<objvars, rawvars, filtvars, katvars>>

\* PSSR::encoding_of / PSS_Raw::encoding_of(msg, output_bits, rng), with
\* drawn the salt rng.random_vec(m_salt_size) returns.
EncodingOf(m, bits, drawn) ==
  EncodingReturns(m, bits, drawn, pss_encode(m_hash, m, drawn, bits))

\* What a call r of verify leaves behind.
VerifyReturns(coded, raw, bits, r) ==
  /\ pss_repr' = coded /\ message_hash' = raw /\ key_bits' = bits
  /\ ver_hash' = m_hash.buf
  /\ called' = TRUE
  /\ ok' = r.ok /\ salt_size' = r.salt_size /\ ret' = r.ret /\ fault' = r.fault
  /\ m_hash' = r.hash
  /\ UNCHANGED <<objvars, encvars, rawvars, filtvars, katvars>>

\* PSSR::verify / PSS_Raw::verify(coded, raw, key_bits)
Verify(coded, raw, bits) ==
  VerifyReturns(coded, raw, bits,
    IF variant = "PSSR"
    THEN PSSR_verify(m_hash, m_salt_size, m_required_salt_len, coded, raw, bits)
    ELSE PSS_Raw_verify(m_hash, m_salt_size, m_required_salt_len, coded, raw, bits))

\* The runs explored: update calls, at most one encoding_of, then
\* one verify, either of what encoding_of returned or of caller-made bytes.
\* A run ends with verify's return or with encoding_of's throw.
DoEncodingOf ==
  /\ err = "not_called" /\ ~called
  /\ \E m \in Digests(m_hash.output_length), drawn \in RandomVecs(m_salt_size) :
       \E bits \in 0..(Floor(m_hash.output_length, m_salt_size) + MaxSlack) :
         EncodingOf(m, bits, drawn)

\* verify of what encoding_of returned: against every digest, and against
\* the encoded digest at nearby key sizes.
VerifyEncoded ==
  /\ err = "none" /\ ~called
  /\ \/ \E raw \in RawDigests(m_hash.output_length) : Verify(EM, raw, output_bits)
     \/ \E bits \in {output_bits - 8, output_bits - 1, output_bits + 1, output_bits + 8} :
          bits >= 0 /\ Verify(EM, msg, bits)

\* verify of what encoding_of returned with one byte changed.
VerifyTampered ==
  /\ err = "none" /\ ~called
  /\ \E i \in TamperAt(EM, m_hash.output_length) :
        \/ Verify([EM EXCEPT ![i] = XorByte(@, 1)], msg, output_bits)
        \/ i = Len(EM) /\ Verify([EM EXCEPT ![i] = 0], msg, output_bits)

\* verify of bytes that no encoding_of produced.
VerifyArbitrary ==
  /\ err = "not_called" /\ ~called
  /\ \E coded \in SeqsUpTo(ReprBytes, 0, MaxReprLen),
        raw \in {Cycle(VectorDigest, m_hash.output_length),
                 Cycle(VectorDigest, m_hash.output_length + 1)},
        bits \in KeyBitsAround(m_hash.output_length) :
        Verify(coded, raw, bits)

\* verify of a forged representation, as sent or as the bytes of a number
\* (leading zero bytes dropped), by an object whose hash holds nothing.
VerifyForged ==
  /\ err = "not_called" /\ ~called /\ m_hash.buf = <<>>
  /\ \E n \in 1..MaxDbLen :
       \E db \in SeqsOfLen(DbBytes, n), p \in 1..n,
          bits \in ForgedKeyBits(n + m_hash.output_length + 1) :
          \/ Verify(ForgedEM(m_hash.output_length, db, p,
                             Cycle(VectorDigest, m_hash.output_length), bits),
                    Cycle(VectorDigest, m_hash.output_length), bits)
          \/ Verify(StripZeros(ForgedEM(m_hash.output_length, db, p,
                                        Cycle(VectorDigest, m_hash.output_length), bits)),
                    Cycle(VectorDigest, m_hash.output_length), bits)

DoUpdate == err = "not_called" /\ ~called /\ Update(<<0>>)

Next ==
  \/ DoUpdate
  \/ DoEncodingOf
  \/ VerifyEncoded
  \/ VerifyTampered
  \/ VerifyArbitrary
  \/ VerifyForged

Spec == Init /\ [][Next]_vars

\* Bytes and chunks passed to update when the message is gathered.
MsgBytes == {1, 2}

UpdateInputs == SeqsUpTo(MsgBytes, 0, 2)

\* The runs of the message-gathering calls alone: update and raw_data in
\* any order on a new object.
PSSR_Gather == \E input \in UpdateInputs : Update(input)

PSS_Raw_Gather == \E input \in UpdateInputs : PSS_Raw_update(input)

NextRaw == PSSR_Gather \/ PSSR_raw_data \/ PSS_Raw_Gather \/ PSS_Raw_raw_data

RawSpec == Init /\ [][NextRaw]_vars

\* ------------------------------------------------------- Buffered_Filter

\* size_t, scaled down to SizeBits bits: sums, differences and products of
\* sizes wrap around at SizeModulus.
SizeModulus == Pow2(SizeBits)
SzAdd(a, b) == (a + b) % SizeModulus
SzSub(a, b) == (a - b) % SizeModulus
SzMul(a, b) == (a * b) % SizeModulus

MinOf(a, b) == IF a <= b THEN a ELSE b

\* The first n elements of s, and s without them.
Take(s, n) == SubSeq(s, 1, n)
Drop(s, n) == SubSeq(s, n + 1, Len(s))

\* copy_mem(&buf[at], src, Len(src)), the copy staying inside buf.
CopyMem(buf, at, src) ==
  [i \in 1..Len(buf) |-> IF at < i /\ i <= at + Len(src) THEN src[i - at] ELSE buf[i]]

\* A check that refuses a final minimum of a whole block.
CtorThrows_Strict(b, f) == b = 0 \/ f >= b

\* Which constructor check throws.
CtorThrows(b, f) == b = 0 \/ f > b

\* m_buffer.resize(2 * m_main_block_mod): the size the buffer gets.
BufferSize(b) == SzMul(2, b)

\* One callback: the function, the bytes it is handed, their count, where
\* they lie (the internal buffer or the caller's input) and the buffer
\* position at the call.
Callback(fn, data, length, from, held) ==
  [fn |-> fn, data |-> data, length |-> length, from |-> from, held |-> held]

\* The condition of line 39 on a call state w: the buffer and the input
\* together reach a block and the final minimum.
MustFill(w, B, F) == SzAdd(w.pos, Len(w.input)) >= SzAdd(B, F)

\* Lines 40-46: the input fills the buffer as far as it goes.
FillBuffer(w, to_copy) ==
  IF w.pos + to_copy > Len(w.buf)
  THEN [w EXCEPT !.oob = TRUE]
  ELSE [w EXCEPT !.buf = CopyMem(w.buf, w.pos, Take(w.input, to_copy)),
                 !.pos = SzAdd(w.pos, to_copy),
                 !.input = Drop(w.input, to_copy)]

\* Nothing held back for the final callback.
Available_NoHoldBack(w, F) == w.pos

\* Line 48: min(m_buffer_pos, m_buffer_pos + input_size - m_final_minimum).
Available(w, F) == MinOf(w.pos, SzSub(SzAdd(w.pos, Len(w.input)), F))

\* No sizing down: whatever is available goes out.
TotalToConsume_NoRound(available, B) == available

\* Line 51: sized down to whole blocks.
TotalToConsume(available, B) == available - (available % B)

\* The callback without the move of line 57: the bytes kept stay where
\* they were.
ConsumeBuffer_NoMove(w, total) ==
  [w EXCEPT
     !.calls = Append(@, Callback("buffered_block", Take(w.buf, total), total,
                                  "buffer", w.pos)),
     !.pos = SzSub(w.pos, total)]

\* Lines 53-57: the callback on the buffer's first total bytes, which are
\* then moved out of the buffer.
ConsumeBuffer(w, total) ==
  IF total > Len(w.buf)
  THEN [w EXCEPT !.oob = TRUE]
  ELSE [w EXCEPT
          !.calls = Append(@, Callback("buffered_block", Take(w.buf, total), total,
                                       "buffer", w.pos)),
          !.pos = SzSub(w.pos, total),
          !.buf = CopyMem(w.buf, 0, SubSeq(w.buf, total + 1, w.pos))]

\* Lines 39-58.
FillStage(w, B, F) ==
  IF w.oob \/ ~MustFill(w, B, F) THEN w
  ELSE LET filled == FillBuffer(w, MinOf(SzSub(Len(w.buf), w.pos), Len(w.input)))
       IN  IF filled.oob THEN filled
           ELSE ConsumeBuffer(
                  [filled EXCEPT !.underflow = filled.pos + Len(filled.input) < F],
                  TotalToConsume(Available(filled, F), B))

\* Line 61-62: the bytes of the input's whole blocks that can go out
\* without the final minimum.
DirectBytes(input_size, B, F) == SzMul(SzSub(input_size, F) \div B, B)

\* Lines 60-70: whole blocks go from the caller's input to buffered_block.
DirectStage(w, B, F) ==
  IF w.oob \/ Len(w.input) < F \/ DirectBytes(Len(w.input), B, F) = 0 THEN w
  ELSE IF DirectBytes(Len(w.input), B, F) > Len(w.input)
  THEN [w EXCEPT !.oob = TRUE]
  ELSE [w EXCEPT
          !.calls = Append(@, Callback("buffered_block",
                                       Take(w.input, DirectBytes(Len(w.input), B, F)),
                                       DirectBytes(Len(w.input), B, F), "input", w.pos)),
          !.input = Drop(w.input, DirectBytes(Len(w.input), B, F))]

\* Lines 72-73: what is left of the input goes into the buffer.
TailStage(w) ==
  IF w.oob THEN w
  ELSE IF w.input # <<>> /\ w.pos + Len(w.input) > Len(w.buf)
  THEN [w EXCEPT !.oob = TRUE]
  ELSE [w EXCEPT !.buf = CopyMem(w.buf, w.pos, w.input),
                 !.pos = SzAdd(w.pos, Len(w.input)),
                 !.input = <<>>]

\* Buffered_Filter::write(input, input_size) on a call state.
filter_write(w, B, F) ==
  IF w.input = <<>> THEN w
  ELSE TailStage(DirectStage(FillStage(w, B, F), B, F))

\* Line 84: (m_buffer_pos - m_final_minimum) / m_main_block_mod.
SpareBlocks(pos, B, F) == SzSub(pos, F) \div B

\* A check that also refuses exactly final_minimum bytes.
TooLittle_OrEqual(pos, F) == pos <= F

\* Line 80: the check that lets end_msg go on.
TooLittle(pos, F) == pos < F

\* Lines 84-94 of end_msg on a call state: the callbacks and the reset.
Flush(w, spare_bytes) ==
  IF w.pos > Len(w.buf) \/ spare_bytes > w.pos
  THEN [w EXCEPT !.oob = TRUE]
  ELSE [w EXCEPT
          !.calls = (IF spare_bytes > 0
                     THEN Append(@, Callback("buffered_block", Take(w.buf, spare_bytes),
                                             spare_bytes, "buffer", w.pos))
                     ELSE @)
                    \o <<Callback("buffered_final", SubSeq(w.buf, spare_bytes + 1, w.pos),
                                  w.pos - spare_bytes, "buffer", w.pos)>>,
          !.pos = 0]

\* Buffered_Filter::end_msg() on a call state.
filter_end_msg(w, B, F) ==
  IF TooLittle(w.pos, F) THEN [w EXCEPT !.err = "Invalid_State"]
  ELSE Flush([w EXCEPT !.err = "none"], SzMul(B, SpareBlocks(w.pos, B, F)))

\* Block sizes and final minimums handed to the constructor: small ones,
\* and the first that make 2 * m_main_block_mod wrap around.
HalfSize == SizeModulus \div 2
BlockMods == (0..MaxBlockMod) \cup {HalfSize, HalfSize + 1}
FinalMinimums == (0..(MaxBlockMod + 1)) \cup {HalfSize, HalfSize + 1}

\* Buffered_Filter::Buffered_Filter(b, f)
Construct(b, f) ==
  /\ constructed = "no"
  /\ m_main_block_mod' = b /\ m_final_minimum' = f
  /\ constructed' = (IF CtorThrows(b, f) THEN "Invalid_Argument" ELSE "yes")
  /\ m_buffer' = (IF CtorThrows(b, f) THEN <<>> ELSE Zeros(BufferSize(b)))
  /\ m_buffer_pos' = 0
  /\ UNCHANGED <<calls, written, n_stream, last_op, end_err, oob, underflow>>
  /\ UNCHANGED <<pssvars, katvars>>

\* The object as a call finds it.
CallState(input) ==
  [pos |-> m_buffer_pos, buf |-> m_buffer,
   calls |-> (IF last_op = "end_msg" /\ end_err = "none" THEN <<>> ELSE calls),
   oob |-> FALSE, underflow |-> FALSE, err |-> "none", input |-> input]

\* The bytes written so far in the message a call belongs to.
WrittenBefore == IF last_op = "end_msg" /\ end_err = "none" THEN <<>> ELSE written

\* What a call leaves behind.
FilterReturns(op, input, w) ==
  /\ m_buffer' = w.buf /\ m_buffer_pos' = w.pos
  /\ calls' = w.calls
  /\ oob' = w.oob /\ underflow' = w.underflow
  /\ end_err' = w.err
  /\ last_op' = op
  /\ written' = WrittenBefore \o input
  /\ n_stream' = n_stream + Len(input)
  /\ UNCHANGED <<constructed, m_main_block_mod, m_final_minimum>>
  /\ UNCHANGED <<pssvars, katvars>>

\* write(input, n): the bytes of a stream are numbered, so that every byte
\* written to an object differs from every other.
Write(n) ==
  /\ constructed = "yes" /\ ~oob
  /\ n_stream + n <= MaxStream
  /\ FilterReturns("write", [i \in 1..n |-> n_stream + i],
       filter_write(CallState([i \in 1..n |-> n_stream + i]),
                    m_main_block_mod, m_final_minimum))

EndMsg ==
  /\ constructed = "yes" /\ ~oob
  /\ FilterReturns("end_msg", <<>>,
       filter_end_msg(CallState(<<>>), m_main_block_mod, m_final_minimum))

DoConstruct == \E b \in BlockMods, f \in FinalMinimums : Construct(b, f)

DoWrite == \E n \in 0..MaxWrite : Write(n)

NextFilter == DoConstruct \/ DoWrite \/ EndMsg

\* The runs of one Buffered_Filter: construction, then writes and end_msg
\* calls in any order.
FilterInit ==
  /\ ConstructDefault("PSSR", 1)
  /\ NoEncoding /\ NoVerify /\ NoRawData /\ NoFilter /\ NoKat

FilterSpec == FilterInit /\ [][NextFilter]_vars

\* ------------------------------------------- PK_PQC_KEM_KAT_Test harness

\* A Fixed_Output_RNG holding left bytes after n more are drawn; drawing
\* more than it holds throws.
Drawn(left, n) == IF n > left THEN [threw |-> TRUE, left |-> left]
                  ELSE [threw |-> FALSE, left |-> left - n]

\* The default inspect_rng_after_keygen: result.confirm(msg, rng.empty()).
inspect_rng_after_keygen(left) ==
  [what |-> "All prepared random bits used for key generation", passed |-> left = 0]

\* The default inspect_rng_after_encaps.
inspect_rng_after_encaps(left) ==
  [what |-> "All prepared random bits used for encapsulation", passed |-> left = 0]

\* The bytes the RNG of that name holds.
RngLeft(name, keygen_left, encaps_left) ==
  IF name = "rng_keygen" THEN keygen_left ELSE encaps_left

\* The harness as it would be with the encapsulation RNG handed over.
InspectedAfterEncaps_Encaps == "rng_encaps"

\* The RNG run_one_test hands to inspect_rng_after_encaps (line 145).
InspectedAfterEncaps == "rng_keygen"

\* The RNG run_one_test hands to inspect_rng_after_keygen (line 116).
InspectedAfterKeygen == "rng_keygen"

\* Lines 104-106: the two RNGs are prepared from the DRBG.
KatStart(for_keygen, for_encaps) ==
  /\ kat_pc = "idle"
  /\ rng_keygen' = for_keygen /\ rng_encaps' = for_encaps
  /\ kat_pc' = "keygen"
  /\ UNCHANGED <<kat_inspected, kat_result>>
  /\ UNCHANGED <<pssvars, filtvars>>

\* Lines 108-116: key generation draws n bytes from rng_keygen; a null key
\* ends the test; otherwise the keygen RNG is inspected.
KatKeygen(n, sk_null) ==
  /\ kat_pc = "keygen"
  /\ rng_keygen' = Drawn(rng_keygen, n).left
  /\ IF Drawn(rng_keygen, n).threw
     THEN kat_pc' = "threw" /\ UNCHANGED <<kat_inspected, kat_result>>
     ELSE IF sk_null
     THEN kat_pc' = "returned" /\ UNCHANGED <<kat_inspected, kat_result>>
     ELSE /\ kat_pc' = "encaps"
          /\ kat_inspected' = Append(kat_inspected, InspectedAfterKeygen)
          /\ kat_result' = Append(kat_result,
               inspect_rng_after_keygen(
                 RngLeft(InspectedAfterKeygen, Drawn(rng_keygen, n).left, rng_encaps)))
  /\ UNCHANGED rng_encaps
  /\ UNCHANGED <<pssvars, filtvars>>

\* Lines 125-145: the public key is loaded (a null one ends the test),
\* encapsulation draws n bytes from rng_encaps, and inspect_rng_after_encaps
\* is called.
KatEncaps(n, pk2_null) ==
  /\ kat_pc = "encaps"
  /\ IF pk2_null
     THEN kat_pc' = "returned" /\ UNCHANGED <<rng_encaps, kat_inspected, kat_result>>
     ELSE /\ rng_encaps' = Drawn(rng_encaps, n).left
          /\ IF Drawn(rng_encaps, n).threw
             THEN kat_pc' = "threw" /\ UNCHANGED <<kat_inspected, kat_result>>
             ELSE /\ kat_pc' = "decaps"
                  /\ kat_inspected' = Append(kat_inspected, InspectedAfterEncaps)
                  /\ kat_result' = Append(kat_result,
                       inspect_rng_after_encaps(
                         RngLeft(InspectedAfterEncaps, rng_keygen,
                                 Drawn(rng_encaps, n).left)))
  /\ UNCHANGED rng_keygen
  /\ UNCHANGED <<pssvars, filtvars>>

\* Lines 147-165: decapsulation draws nothing from either RNG.
KatDecaps ==
  /\ kat_pc = "decaps"
  /\ kat_pc' = "returned"
  /\ UNCHANGED <<rng_keygen, rng_encaps, kat_inspected, kat_result>>
  /\ UNCHANGED <<pssvars, filtvars>>

DoKatStart == \E k \in 0..MaxPrepared, e \in 0..MaxPrepared : KatStart(k, e)

DoKatKeygen == \E n \in 0..(MaxPrepared + 1), sk_null \in BOOLEAN : KatKeygen(n, sk_null)

DoKatEncaps == \E n \in 0..(MaxPrepared + 1), pk2_null \in BOOLEAN : KatEncaps(n, pk2_null)

NextKat == DoKatStart \/ DoKatKeygen \/ DoKatEncaps \/ KatDecaps

\* One run of run_one_test.
KatInit ==
  /\ ConstructDefault("PSSR", 1)
  /\ NoEncoding /\ NoVerify /\ NoRawData /\ NoFilter /\ NoKat

KatSpec == KatInit /\ [][NextKat]_vars

\* ------------------------------------------------------------------ claims

\* The hash length of the object, and the states the claims speak of.
H_len == m_hash.output_length

Encoded == err = "none"

\* verify was handed what encoding_of returned, the encoded digest and the
\* encoding's output_bits as key_bits.
VerifiedBack ==
  called /\ Encoded /\ pss_repr = EM /\ message_hash = msg /\ key_bits = output_bits

\* Neither call found bytes in the hash that an earlier update left there.
FreshHash == enc_hash = <<>> /\ ver_hash = <<>>

\* C1: encoding a digest of length H with a salt of length S at output_bits
\* N >= 8H+8S+9 and verifying the result against the same digest at
\* key_bits N returns true and discovers salt length S.
C1_RoundTrip ==
  (VerifiedBack /\ FreshHash) => (ok /\ salt_size = Len(salt))

\* C1 reached at the boundary N = 8H+8S+9 (the marker is DB's first byte)
\* with a salt that holds the bytes 0x01 and 0x00.
C1_Witness ==
  /\ VerifiedBack /\ FreshHash
  /\ output_bits = 8 * H_len + 8 * Len(salt) + 9
  /\ salt = <<1, 0>>
  /\ ok /\ salt_size = 2

\* C2: given a digest of length H, pss_encode fails with Encoding_Error
\* exactly when output_bits < 8H+8S+9.
C2_LengthFloor ==
  (err # "not_called" /\ Len(msg) = H_len)
    => ((err = "Encoding_Error") <=> (output_bits < 8 * H_len + 8 * Len(salt) + 9))

\* C2 reached one bit under the floor, N = 8H+8S+8, with a salt of two bytes.
C2_Witness ==
  /\ err = "Encoding_Error" /\ Len(msg) = H_len /\ Len(salt) = 2
  /\ output_bits = 8 * H_len + 8 * Len(salt) + 8

\* C3: a call of pss_encode with a digest whose length is not H throws
\* Encoding_Error, and a call that throws (for the digest length or for the
\* output length) returns nothing and leaves the hash object as it found it.
C3_FailClean ==
  [][(err = "not_called" /\ err' # "not_called")
       => /\ (Len(msg') # H_len => err' = "Encoding_Error")
          /\ (err' = "Encoding_Error" => (EM' = <<>> /\ m_hash' = m_hash))]_vars

\* C3 reached with a digest one byte too long and a hash that held a byte
\* before the call and holds the same byte after it.
C3_Witness ==
  /\ err = "Encoding_Error" /\ ~called
  /\ Len(msg) = H_len + 1
  /\ enc_hash = <<0>> /\ m_hash.buf = <<0>>

\* MGF1 as the specification states it: the first n bytes of
\* Hash(seed || 0) || Hash(seed || 1) || ..., the counter in four bytes.
MGF1(seed, n) ==
  [i \in 1..n |->
     HashFn(H_len, seed \o CounterBE((i - 1) \div H_len))[((i - 1) % H_len) + 1]]

\* The layout the specification gives EM for digest d, salt s, N bits.
Layout(d, s, N) ==
  LET emLen == (N + 7) \div 8
      dbLen == emLen - H_len - 1
      H2 == HashFn(H_len, Zeros(8) \o d \o s)
      db == Zeros(dbLen - 1 - Len(s)) \o <<1>> \o s
      mask == MGF1(H2, dbLen)
      maskedDB == [i \in 1..dbLen |-> XorByte(db[i], mask[i])]
  IN  [maskedDB EXCEPT ![1] = @ % Pow2(8 - (8 * emLen - N))] \o H2 \o <<188>>

\* C4: a successful pss_encode(d, s, N) returns ceil(N/8) bytes: the masked
\* DB with its top bits cleared, then H_2 = Hash(8 zero bytes || d || s) in
\* clear, then 0xBC.
C4_Layout ==
  (Encoded /\ enc_hash = <<>>)
    => /\ Len(EM) = (output_bits + 7) \div 8
       /\ EM[Len(EM)] = 188
       /\ EM = Layout(msg, salt, output_bits)

\* C4 reached with zero padding before the marker, a two-byte salt and a
\* DB longer than one hash block (so MGF1 runs its counter).
C4_Witness ==
  /\ Encoded /\ enc_hash = <<>>
  /\ Len(salt) = 2
  /\ Len(EM) - H_len - 1 > 1 + Len(salt)
  /\ Len(EM) - H_len - 1 > H_len

\* C5: the top 8*ceil(N/8) - N bits of the first byte of a successful
\* encoding are zero, so the ceil(N/8) bytes read big-endian are below 2^N.
C5_TopBitsClear ==
  Encoded
    => /\ Len(EM) = (output_bits + 7) \div 8
       /\ EM[1] < Pow2(8 - (8 * Len(EM) - output_bits))

\* C5 reached where three top bits are cleared and the first byte is not 0.
C5_Witness ==
  Encoded /\ 8 * Len(EM) - output_bits = 3 /\ EM[1] # 0

\* The worked example: H = 4, digest 01 02 03 04, salt AA BB CC DD, N = 80.
VectorEncoded ==
  /\ Encoded /\ enc_hash = <<>>
  /\ H_len = 4 /\ msg = VectorDigest /\ salt = VectorSalt /\ output_bits = 80

\* C6 as stated: in the worked example EM[4:8] (bytes 4..7 counted from 0)
\* are the digest's bytes 01 02 03 04.
C6_Original == VectorEncoded => SubSeq(EM, 5, 8) = VectorDigest

\* C6 amended: in the worked example EM has 10 bytes, EM[9] is 0xBC and
\* EM[5:9] is H_2 = Hash(8 zero bytes || digest || salt), in clear.
C6_Amended ==
  VectorEncoded
    => /\ Len(EM) = 10
       /\ EM[10] = 188
       /\ SubSeq(EM, 6, 9) = HashFn(4, Zeros(8) \o VectorDigest \o VectorSalt)

\* C6 reached: the worked example encoded, and verified at key_bits 80.
C6_Witness == VectorEncoded /\ VerifiedBack /\ ver_hash = <<>> /\ ok

\* C7: verify and pss_verify return a boolean for every representation,
\* digest and key_bits, and never read or write outside an array.
C7_Total ==
  called => (~fault /\ ok \in BOOLEAN /\ ret \in BOOLEAN)

\* C7 reached with two caller-made bytes ending in 0xBC at the smallest
\* key size, which pss_verify pads, unmasks and scans.
C7_Witness ==
  /\ called /\ err = "not_called"
  /\ Len(pss_repr) = 2 /\ pss_repr[2] = 188
  /\ key_bits = 8 * H_len + 9 /\ Len(message_hash) = H_len
  /\ ~fault /\ ~ret

\* C8: pss_verify returns false when key_bits < 8H+9, when the digest's
\* length is not H, when EM is longer than ceil(key_bits/8) bytes and when
\* EM has at most one byte, whatever EM holds.
C8_Structural ==
  (called /\ (\/ key_bits < 8 * H_len + 9
              \/ Len(message_hash) # H_len
              \/ Len(pss_repr) > (key_bits + 7) \div 8
              \/ Len(pss_repr) <= 1))
    => (~ok /\ ~ret)

\* C8 reached with a valid encoding and its digest at a key one byte
\* shorter than the encoding, yet no smaller than 8H+9 bits.
C8_Witness ==
  /\ called /\ Encoded /\ pss_repr = EM /\ message_hash = msg
  /\ key_bits = output_bits - 8 /\ key_bits >= 8 * H_len + 9
  /\ Len(pss_repr) > (key_bits + 7) \div 8
  /\ ~ok

\* C9: pss_verify returns false for every EM whose last byte is not 0xBC.
C9_Trailer ==
  (called /\ Len(pss_repr) >= 1 /\ pss_repr[Len(pss_repr)] # 188) => (~ok /\ ~ret)

\* C9 reached with an encoding whose last byte alone was changed, verified
\* against the encoded digest at the encoding's size.
C9_Witness ==
  /\ called /\ Encoded /\ message_hash = msg /\ key_bits = output_bits
  /\ Len(pss_repr) = Len(EM)
  /\ SubSeq(pss_repr, 1, Len(EM) - 1) = SubSeq(EM, 1, Len(EM) - 1)
  /\ pss_repr[Len(pss_repr)] # 188
  /\ ~ok

\* The hash does not collide on what encoding_of hashed for H_2 and what a
\* verify of the same salt against message_hash hashes.
NoCollision ==
  HashFn(H_len, enc_hash \o Zeros(8) \o msg \o salt)
    # HashFn(H_len, Zeros(8) \o message_hash \o salt)

\* C10: verifying an encoding of d against another digest of the same
\* length returns false, the hash not colliding on the two.
C10_DigestMismatch ==
  (called /\ Encoded /\ pss_repr = EM /\ key_bits = output_bits /\ ver_hash = <<>>
     /\ Len(message_hash) = H_len /\ message_hash # msg /\ NoCollision)
    => (~ok /\ ~ret)

\* C10 reached with hashes that held nothing before either call, where the
\* same encoding verifies against its own digest.
C10_Witness ==
  /\ called /\ Encoded /\ pss_repr = EM /\ key_bits = output_bits /\ FreshHash
  /\ Len(message_hash) = H_len /\ message_hash # msg /\ NoCollision
  /\ Len(salt) = 2
  /\ ~ok

\* C11: an object constructed with an explicit salt size returns true from
\* verify exactly when pss_verify succeeds and the salt length it found is
\* the configured one; a found length that differs gives false although the
\* digest comparison succeeded.
C11_SaltPolicy ==
  (called /\ m_required_salt_len)
    => /\ (ret <=> (ok /\ salt_size = m_salt_size))
       /\ ((ok /\ salt_size # m_salt_size) => ~ret)

\* C11 reached: an object that requires one salt byte is handed a
\* representation with two, which pss_verify accepts and verify refuses.
C11_Witness ==
  /\ called /\ m_required_salt_len /\ m_salt_size = 1
  /\ ok /\ salt_size = 2 /\ ~ret

\* A hash object that holds no input, and the bytes of key size K.
FreshObj == [output_length |-> H_len, buf |-> <<>>]

KeyBytes(K) == (K + 7) \div 8

\* Byte i (from 1) of MGF1(seed): of Hash(seed || 0) || Hash(seed || 1) ...
MaskByte(seed, i) ==
  HashFn(H_len, seed \o CounterBE((i - 1) \div H_len))[((i - 1) % H_len) + 1]

\* Byte i of the data block the specification's verify steps recover from
\* coded (a representation of KeyBytes(K) bytes, dbLen of them DB): coded's
\* byte XOR MGF1 of the H that follows DB, the top bits of the first byte
\* cleared.
SpecDBByte(coded, K, dbLen, i) ==
  IF i = 1
  THEN XorByte(coded[i], MaskByte(SubSeq(coded, dbLen + 1, dbLen + H_len), i))
         % Pow2(8 - (8 * KeyBytes(K) - K))
  ELSE XorByte(coded[i], MaskByte(SubSeq(coded, dbLen + 1, dbLen + H_len), i))

SpecDB(coded, K, dbLen) == [i \in 1..dbLen |-> SpecDBByte(coded, K, dbLen, i)]

\* Every salt s for which a representation with data block db can be an
\* encoding: the encoding's DB ends in 0x01 and s, so s is a suffix of db
\* that stands behind a byte 0x01.
SaltCandidatesOf(db) ==
  {SubSeq(db, i, Len(db)) : i \in {j \in 2..(Len(db) + 1) : db[j - 1] = 1}}

SaltCandidates(coded, K) == SaltCandidatesOf(SpecDB(coded, K, Len(coded) - H_len - 1))

\* coded is pss_encode(d, s, K) for a hash that held nothing.  (The second
\* conjunct follows from the third, pss_encode putting H_2 behind DB; it
\* spares the comparison where H_2 already differs.)
IsEncodingOf(coded, d, s, K) ==
  /\ 8 * H_len + 8 * Len(s) + 9 <= K
  /\ SubSeq(coded, Len(coded) - H_len, Len(coded) - 1)
       = HashFn(H_len, Zeros(8) \o d \o s)
  /\ coded = pss_encode(FreshObj, d, s, K).EM

\* C12: an object constructed without a salt size (m_salt_size = H, no
\* required length) returns true from verify for pss_encode(d, s, N), d, N
\* whatever the length of s, and finds that length.
C12_FreeSaltLength ==
  (/\ called /\ ~m_required_salt_len /\ ver_hash = <<>>
   /\ Len(message_hash) = H_len /\ key_bits >= 8 * H_len + 9
   /\ Len(pss_repr) = KeyBytes(key_bits))
    => \A s \in SaltCandidates(pss_repr, key_bits) :
         IsEncodingOf(pss_repr, message_hash, s, key_bits)
           => (ret /\ salt_size = Len(s))

\* C12 reached: an object over a one-byte hash, built without a salt size,
\* accepts the encoding of a two-byte salt at N = 33.
C12_Witness ==
  /\ called /\ ~m_required_salt_len /\ ver_hash = <<>>
  /\ H_len = 1 /\ m_salt_size = 1 /\ key_bits = 33
  /\ IsEncodingOf(pss_repr, message_hash, <<2, 1>>, key_bits)
  /\ ret /\ salt_size = 2

\* EM left-padded with zero bytes to the key's byte length.
Padded(em, K) == Zeros(KeyBytes(K) - Len(em)) \o em

\* verify got as far as the top-bit check: none of the earlier returns.
ReachedTopBits ==
  /\ called /\ key_bits >= 8 * H_len + 9 /\ Len(message_hash) = H_len
  /\ Len(pss_repr) > 1 /\ Len(pss_repr) <= KeyBytes(key_bits)
  /\ pss_repr[Len(pss_repr)] = 188

\* C13: with topBits = 8*keyBytes - K, pss_verify returns false when the
\* first byte of EM padded to keyBytes has fewer than topBits leading zero
\* bits (is 2^(8-topBits) or more); an EM shorter than keyBytes passes the
\* check, whatever its own first byte: the call goes on to MGF1, which
\* leaves the hash object finalised.
C13_TopBitRejection ==
  /\ (called /\ Len(pss_repr) >= 1 /\ Len(pss_repr) <= KeyBytes(key_bits)
        /\ Padded(pss_repr, key_bits)[1] >= Pow2(8 - (8 * KeyBytes(key_bits) - key_bits)))
       => (~ok /\ ~ret)
  /\ (ReachedTopBits /\ Len(pss_repr) < KeyBytes(key_bits))
       => (Padded(pss_repr, key_bits)[1] = 0 /\ m_hash.buf = <<>>)

\* C13 reached: an encoding for N bits whose first byte uses the highest
\* of its N bits is refused at key size N - 1 of the same byte length.
C13_Witness ==
  /\ called /\ Encoded /\ FreshHash /\ pss_repr = EM /\ message_hash = msg
  /\ key_bits = output_bits - 1 /\ KeyBytes(key_bits) = Len(EM)
  /\ key_bits >= 8 * H_len + 8 * Len(salt) + 9
  /\ EM[1] >= Pow2(8 - (8 * Len(EM) - key_bits))
  /\ ~ok

\* The other case of C13 reached: a representation shorter than keyBytes
\* whose own first byte would not fit the spare bits is accepted, and a
\* hash that held a byte before the call holds none after it.
C13_ShortReached ==
  /\ ReachedTopBits /\ Len(pss_repr) < KeyBytes(key_bits)
  /\ pss_repr[1] >= Pow2(8 - (8 * KeyBytes(key_bits) - key_bits))
  /\ ver_hash # <<>> /\ m_hash.buf = <<>>

\* verify got as far as unmasking DB, with a hash that held nothing.
ReachedScan ==
  /\ ReachedTopBits /\ ver_hash = <<>>
  /\ Padded(pss_repr, key_bits)[1] < Pow2(8 - (8 * KeyBytes(key_bits) - key_bits))

\* The data block of the last verify call as the specification recovers it.
DbLen == KeyBytes(key_bits) - H_len - 1

VerifiedDB == SpecDB(Padded(pss_repr, key_bits), key_bits, DbLen)

\* The H that follows the data block in the padded representation.
VerifiedH == SubSeq(Padded(pss_repr, key_bits), DbLen + 1, DbLen + H_len)

\* The index (from 0) of the first 0x01 of db, Len(db) when there is none.
MarkerIndex(db) ==
  IF \E i \in 1..Len(db) : db[i] = 1
  THEN (CHOOSE i \in 1..Len(db) : db[i] = 1 /\ \A j \in 1..(i - 1) : db[j] # 1) - 1
  ELSE Len(db)

\* db is zero bytes, then 0x01, then anything.
WellFormedDB(db) ==
  /\ MarkerIndex(db) < Len(db)
  /\ \A j \in 1..MarkerIndex(db) : db[j] = 0

\* What C14 says of a call whose data block is db and whose H is h.
MarkerScanOf(db, h) ==
  /\ (~WellFormedDB(db) => (~ok /\ ~ret))
  /\ (WellFormedDB(db)
        => (ok <=> h = HashFn(H_len, Zeros(8) \o message_hash
                                      \o SubSeq(db, MarkerIndex(db) + 2, Len(db)))))
  /\ (ok => salt_size = Len(db) - MarkerIndex(db) - 1)

\* C14: after unmasking, pss_verify returns false when a byte before the
\* first 0x01 of DB is not zero or DB holds no 0x01; otherwise the salt is
\* what follows the first 0x01 (the comparison is of H with the hash of 8
\* zero bytes, the digest and those bytes) and the salt length found is
\* dbLen - marker_index - 1.
C14_MarkerScan == ReachedScan => MarkerScanOf(VerifiedDB, VerifiedH)

\* C14 reached: a data block with a byte 0x02 before its first 0x01, whose
\* H is the right hash for the bytes after that 0x01, is refused.
C14_Witness ==
  /\ ReachedScan /\ DbLen = 3
  /\ VerifiedDB[1] = 0 /\ VerifiedDB[2] = 2 /\ VerifiedDB[3] = 1
  /\ VerifiedH = HashFn(H_len, Zeros(8) \o message_hash)
  /\ ~ok

\* The accepting ends of C14 reached: the marker as the last byte of DB
\* behind zero bytes (salt length 0), and as its first byte (dbLen - 1).
C14_MarkerLast ==
  ReachedScan /\ DbLen = 3 /\ MarkerIndex(VerifiedDB) = 2 /\ ok /\ salt_size = 0

C14_MarkerFirst ==
  ReachedScan /\ DbLen = 3 /\ MarkerIndex(VerifiedDB) = 0 /\ ok /\ salt_size = 2

\* No 0x01 in DB at all.
C14_NoMarker ==
  ReachedScan /\ DbLen = 3 /\ MarkerIndex(VerifiedDB) = 3 /\ ~ok

\* The last verify call was handed fewer bytes than the key has, and
\* pss_verify accepted them (as it accepts them padded): a valid short EM.
ValidShortEM ==
  /\ called /\ ver_hash = <<>>
  /\ 1 < Len(pss_repr) /\ Len(pss_repr) < KeyBytes(key_bits)
  /\ pss_verify(FreshObj, Padded(pss_repr, key_bits), message_hash, key_bits).ok

\* C15 as stated: a valid EM of L < keyBytes bytes verifies padded at K as
\* it verifies unpadded at a key size K' of L bytes (some K' with
\* ceil(K'/8) = L gives the same ok), the key sizes of L bytes being large
\* enough for the hash.
C15_Original ==
  (ValidShortEM /\ 8 * Len(pss_repr) - 7 >= 8 * H_len + 9)
    => \E K2 \in (8 * Len(pss_repr) - 7)..(8 * Len(pss_repr)) :
         pss_verify(FreshObj, pss_repr, message_hash, K2).ok
           = pss_verify(FreshObj, Padded(pss_repr, key_bits), message_hash, key_bits).ok

\* C15 amended: a valid EM of L < keyBytes bytes verifies unpadded at the
\* same key size K as it verifies padded at K (pss_verify pads it itself);
\* the key size is not to be taken from L.
C15_Amended ==
  ValidShortEM
    => /\ ok
       /\ salt_size = pss_verify(FreshObj, Padded(pss_repr, key_bits), message_hash,
                                 key_bits).salt_size

\* C15 reached: a valid EM one byte shorter than the key, the shorter key
\* sizes still at or above 8H+9.
C15_Witness ==
  /\ ValidShortEM /\ ok
  /\ Len(pss_repr) = KeyBytes(key_bits) - 1
  /\ 8 * Len(pss_repr) - 7 >= 8 * H_len + 9

\* C16: for a PSSR object, what encoding_of returns (given the salt drawn)
\* and what verify returns depend only on the call's arguments and the
\* configuration: they are what the same call returns on an object whose
\* hash holds nothing, also after update calls that no raw_data consumed.
C16_Purity ==
  variant = "PSSR"
    => /\ (err # "not_called"
            => /\ err = pss_encode(FreshObj, msg, salt, output_bits).err
               /\ EM = pss_encode(FreshObj, msg, salt, output_bits).EM)
       /\ (called
            => ret = PSSR_verify(FreshObj, m_salt_size, m_required_salt_len,
                                 pss_repr, message_hash, key_bits).ret)

\* The call that breaks C16: encoding_of on a PSSR object whose hash holds
\* a byte from update returns another EM than on a fresh object, and the
\* same object refuses it for the same digest and key size.
C16_StaleEncoding ==
  /\ variant = "PSSR" /\ Encoded /\ enc_hash = <<0>>
  /\ EM # pss_encode(FreshObj, msg, salt, output_bits).EM
  /\ VerifiedBack /\ ver_hash = <<>> /\ ~ret

\* C17: PSS_Raw::raw_data returns the bytes passed to update since the
\* previous raw_data call, in call order, when they are H bytes in all, and
\* fails with Encoding_Error for any other total (none, fewer, more).
C17_RawData ==
  (variant = "PSS_Raw" /\ raw_err # "not_called")
    => /\ (Len(raw_fed) = H_len => (raw_err = "none" /\ raw_ret = raw_fed))
       /\ (Len(raw_fed) # H_len => raw_err = "Encoding_Error")

\* C17 reached: four bytes fed after an earlier raw_data come back in the
\* order they were fed.
C17_Witness ==
  /\ variant = "PSS_Raw" /\ H_len = 4
  /\ raw_err = "none" /\ raw_fed = <<1, 2, 2, 1>> /\ raw_ret = <<1, 2, 2, 1>>
  /\ fed = <<2>>

\* The failing ends of C17 reached: nothing fed, and more than H bytes fed.
C17_EmptyFails ==
  variant = "PSS_Raw" /\ raw_err = "Encoding_Error" /\ raw_fed = <<>>

C17_LongFails ==
  variant = "PSS_Raw" /\ raw_err = "Encoding_Error" /\ Len(raw_fed) = H_len + 1

\* C21: after every PSS_Raw::raw_data call, returning or failing, m_msg is
\* empty, so the buffer always holds exactly the bytes passed to update
\* since the last raw_data call, failed or not, and the next raw_data
\* returns or refuses those bytes alone.
C21_BufferEmptied ==
  variant = "PSS_Raw"
    => /\ m_msg = fed
       /\ (raw_err # "not_called" /\ fed = <<>> => m_msg = <<>>)

\* C21 reached: a raw_data call that failed on three bytes left the buffer
\* empty.
C21_Witness ==
  /\ variant = "PSS_Raw" /\ H_len = 2
  /\ raw_err = "Encoding_Error" /\ Len(raw_fed) = 3
  /\ fed = <<>> /\ m_msg = <<>>

\* The call after a failure reached: raw_data failed on one byte, two bytes
\* were passed to update, and the next raw_data returned those two.
C21_AfterFailure ==
  /\ variant = "PSS_Raw" /\ H_len = 2
  /\ raw_prev = "Encoding_Error"
  /\ raw_err = "none" /\ raw_ret = <<2, 1>> /\ raw_fed = <<2, 1>>
  /\ m_msg = <<>>

\* C18: on either kind of object, in either configuration, encoding_of
\* hands pss_encode one salt of m_salt_size bytes, succeeds for a digest of
\* H bytes at every N >= 8H + 8*m_salt_size + 9, and verify of what it
\* returned, with the same digest and N, on the same object returns true.
C18_WrapperRoundTrip ==
  /\ (err # "not_called" => Len(salt) = m_salt_size)
  /\ ((err # "not_called" /\ Len(msg) = H_len
         /\ output_bits >= 8 * H_len + 8 * m_salt_size + 9) => err = "none")
  /\ ((VerifiedBack /\ FreshHash) => ret)

\* C18 reached: a PSS_Raw object that requires two salt bytes verifies its
\* own encoding at the smallest N, the salt drawn being 01 01.
C18_Witness ==
  /\ variant = "PSS_Raw" /\ m_required_salt_len /\ m_salt_size = 2
  /\ VerifiedBack /\ FreshHash
  /\ salt = <<1, 1>> /\ output_bits = 8 * H_len + 8 * m_salt_size + 9
  /\ ret

\* The same for a PSSR object built without a salt size over the 4-byte hash.
C18_DefaultReached ==
  /\ variant = "PSSR" /\ ~m_required_salt_len /\ H_len = 4
  /\ VerifiedBack /\ FreshHash /\ Len(salt) = 4 /\ ret

\* The hash object as the last verify call found it.
VerHashObj == [output_length |-> H_len, buf |-> ver_hash]

\* The last pss_verify call returned what the call r does: the same
\* result, the same salt length written, the same hash object left.
SameAs(r) ==
  /\ ok = r.ok
  /\ salt_size = (IF r.wrote THEN r.salt_size ELSE 0)
  /\ fault = r.fault
  /\ m_hash = r.hash

\* C19: for an EM of more than one and fewer than keyBytes bytes,
\* pss_verify(EM, d, K) returns what pss_verify(zeros || EM, d, K) returns,
\* with the same salt length found.  (The caller's bytes are not written:
\* pss_verify only reads pss_repr and unmasks coded, the copy PadToKey
\* makes, so a call changes the hash object and nothing else.)
C19_ZeroPadding ==
  (called /\ 1 < Len(pss_repr) /\ Len(pss_repr) < KeyBytes(key_bits))
    => SameAs(pss_verify(VerHashObj, Padded(pss_repr, key_bits), message_hash, key_bits))

\* C19 reached: a representation one byte shorter than the key over the
\* two-byte hash is accepted with a salt of one byte.
C19_Witness ==
  /\ called /\ ver_hash = <<>> /\ H_len = 2
  /\ Len(pss_repr) = KeyBytes(key_bits) - 1
  /\ ok /\ salt_size = 1

\* The refusing side of C19 reached: an encoding verified at a key one
\* byte longer, where the padded bytes are refused as well.
C19_RefusedReached ==
  /\ called /\ Encoded /\ pss_repr = EM /\ key_bits = output_bits + 8
  /\ Len(pss_repr) = KeyBytes(key_bits) - 1
  /\ ~ok

\* EM padded to the bytes of key size K is pss_encode(d, s, K) for a salt s
\* within the floor.
ImageOfEncode(em, d, K) ==
  /\ Len(em) <= KeyBytes(K)
  /\ \E s \in SaltCandidates(Padded(em, K), K) : IsEncodingOf(Padded(em, K), d, s, K)

\* C20: for a digest d of H bytes and key_bits K >= 8H+9, pss_verify(EM,
\* d, K) returns true exactly when EM, left-padded with zeros to ceil(K/8)
\* bytes, is pss_encode(d, s, K) for some salt s with 8H+8*len(s)+9 <= K,
\* and then the salt length it reports is len(s).
C20_AcceptsImages ==
  (called /\ ver_hash = <<>> /\ Len(message_hash) = H_len /\ key_bits >= 8 * H_len + 9)
    => /\ (ok <=> ImageOfEncode(pss_repr, message_hash, key_bits))
       /\ (ok => \A s \in SaltCandidates(Padded(pss_repr, key_bits), key_bits) :
                   IsEncodingOf(Padded(pss_repr, key_bits), message_hash, s, key_bits)
                     => salt_size = Len(s))

\* C20 reached: bytes this object never encoded, one fewer than the key
\* has, are accepted, and padded they are the encoding of a one-byte salt.
C20_Witness ==
  /\ called /\ err = "not_called" /\ ver_hash = <<>>
  /\ Len(message_hash) = H_len /\ key_bits >= 8 * H_len + 9
  /\ Len(pss_repr) = KeyBytes(key_bits) - 1
  /\ ImageOfEncode(pss_repr, message_hash, key_bits)
  /\ ok /\ salt_size = 1

\* The other side of C20 reached: bytes with the right trailer, size, top
\* bits and a well-formed data block that are no encoding, and are refused.
C20_NoImageReached ==
  /\ ReachedScan /\ WellFormedDB(VerifiedDB)
  /\ ~ImageOfEncode(pss_repr, message_hash, key_bits)
  /\ ~ok

\* ------------------------------------------------- claims: Buffered_Filter

\* A filter whose 2 * m_main_block_mod fits size_t.
Sound == constructed = "yes" /\ 2 * m_main_block_mod < SizeModulus

\* The last call was an end_msg that did not throw.
Ended == last_op = "end_msg" /\ end_err = "none"

\* The bytes handed to the first n of the callbacks cs, in call order.
RECURSIVE DataOf(_, _)
DataOf(cs, n) == IF n = 0 THEN <<>> ELSE DataOf(cs, n - 1) \o cs[n].data

\* The bytes the buffer holds.
Held == Take(m_buffer, m_buffer_pos)

\* C22: after a successful end_msg the bytes handed to the buffered_block
\* callbacks, in call order, followed by those of the one buffered_final
\* callback, which is the last, are the bytes written since the previous
\* successful end_msg; before it, the callbacks' bytes followed by the
\* buffer's are the bytes written; and input goes to buffered_block from
\* the caller's buffer only when the internal buffer is empty.
C22_ContentAndOrder ==
  Sound =>
    /\ (Ended
          => /\ calls # <<>>
             /\ calls[Len(calls)].fn = "buffered_final"
             /\ \A i \in 1..(Len(calls) - 1) : calls[i].fn = "buffered_block"
             /\ DataOf(calls, Len(calls)) = written)
    /\ (~Ended => DataOf(calls, Len(calls)) \o Held = written)
    /\ \A i \in 1..Len(calls) : calls[i].from = "input" => calls[i].held = 0

\* C22 reached: a message that went out through a block from the buffer
\* that was not its first, then a block from the caller's input, then the
\* final callback.
C22_Witness ==
  /\ Sound /\ Ended /\ Len(calls) >= 3
  /\ \E i, j \in 1..Len(calls) :
        /\ i < j /\ calls[i].from = "buffer" /\ calls[j].from = "input"
        /\ calls[i].data[1] # written[1]
  /\ DataOf(calls, Len(calls)) = written

\* A message reached whose bytes before a failed end_msg are part of it.
C22_AcrossFailure ==
  /\ Sound /\ Ended /\ m_final_minimum = 2
  /\ Len(calls) = 1 /\ Len(written) = 2 /\ written[2] = written[1] + 1
  /\ n_stream = 2

\* C23: every buffered_block callback is handed a positive multiple of
\* main_block_mod bytes.
C23_WholeBlocks ==
  Sound =>
    \A i \in 1..Len(calls) :
      calls[i].fn = "buffered_block"
        => /\ calls[i].length > 0
           /\ calls[i].length % m_main_block_mod = 0
           /\ Len(calls[i].data) = calls[i].length

\* C23 reached: with blocks of 3 and a final minimum of 2, a write hands
\* one block out of five buffered bytes, and another hands two blocks at
\* once from the caller's input.
C23_Witness ==
  /\ Sound /\ m_main_block_mod = 3 /\ m_final_minimum = 2
  /\ \E i \in 1..Len(calls) :
        calls[i].fn = "buffered_block" /\ calls[i].from = "buffer"
          /\ calls[i].held = 5 /\ calls[i].length = 3

C23_TwoBlocksAtOnce ==
  /\ Sound /\ m_main_block_mod = 2
  /\ \E i \in 1..Len(calls) :
        calls[i].fn = "buffered_block" /\ calls[i].from = "input" /\ calls[i].length = 4

\* end_msg finds no spare block in the buffer: its buffered_block call
\* (line 88) is never made.
NoSpareBlocks ==
  (Sound /\ ~TooLittle(m_buffer_pos, m_final_minimum))
    => SpareBlocks(m_buffer_pos, m_main_block_mod, m_final_minimum) = 0

\* C24: the filter holds at least min(bytes written in the current message,
\* final_minimum) bytes, and every buffered_final callback is handed L
\* bytes with final_minimum <= L < final_minimum + main_block_mod.
C24_HoldsBack ==
  Sound =>
    /\ m_buffer_pos >= MinOf(Len(WrittenBefore), m_final_minimum)
    /\ \A i \in 1..Len(calls) :
         calls[i].fn = "buffered_final"
           => /\ m_final_minimum <= calls[i].length
              /\ calls[i].length < m_final_minimum + m_main_block_mod

\* C24 reached: after writes that handed blocks out, the buffer holds
\* exactly final_minimum bytes.
C24_Witness ==
  /\ Sound /\ last_op = "write" /\ m_final_minimum = 2 /\ m_main_block_mod = 2
  /\ m_buffer_pos = 2 /\ Len(written) = 8 /\ Len(calls) >= 2

\* Both ends of the final callback's length reached.
C24_ShortestFinal ==
  /\ Sound /\ Ended /\ m_final_minimum = 1 /\ m_main_block_mod = 3
  /\ Len(calls) > 1 /\ calls[Len(calls)].length = 1

C24_LongestFinal ==
  /\ Sound /\ Ended /\ m_final_minimum = 1 /\ m_main_block_mod = 3
  /\ Len(calls) > 1 /\ calls[Len(calls)].length = 3

\* What C25 says of the state an end_msg call leaves: it threw exactly
\* when fewer than final_minimum bytes had been written since the last
\* successful end_msg or construction, and a successful one left
\* m_buffer_pos at 0.
EndMsgOutcome ==
  (Sound /\ last_op = "end_msg")
    => /\ (end_err = "Invalid_State" <=> Len(written) < m_final_minimum)
       /\ (end_err = "none" => m_buffer_pos = 0)

\* What C25 says of a failing end_msg call: no callback, the buffer's
\* bytes and the position as they were.
FailedEndMsgKeeps ==
  (Sound /\ last_op' = "end_msg" /\ end_err' = "Invalid_State")
    => /\ m_buffer' = m_buffer /\ m_buffer_pos' = m_buffer_pos
       /\ calls' = (IF Ended THEN <<>> ELSE calls)
       /\ written' = WrittenBefore

\* C25: end_msg fails with Invalid_State iff fewer than final_minimum
\* bytes were written since the last successful end_msg (or construction);
\* a failing call makes no callback and leaves the buffered bytes and the
\* position unchanged; a successful one leaves the position at 0.
C25_EndMsg == []EndMsgOutcome /\ [][FailedEndMsgKeeps]_vars

\* C25 reached: end_msg failed with one byte buffered where two are the
\* minimum, and the byte is still there.
C25_Witness ==
  /\ Sound /\ last_op = "end_msg" /\ end_err = "Invalid_State"
  /\ m_final_minimum = 2 /\ m_buffer_pos = 1 /\ Held = written /\ Len(written) = 1
  /\ calls = <<>>

\* The edge of C25 reached: exactly final_minimum bytes written, end_msg
\* succeeds.
C25_ExactlyMinimum ==
  /\ Sound /\ Ended /\ m_final_minimum = 3 /\ Len(written) = 3
  /\ m_buffer_pos = 0

\* The bounds C26 speaks of, on the object as it stands.
WithinBounds ==
  /\ m_buffer_pos < m_main_block_mod + m_final_minimum
  /\ m_buffer_pos <= Len(m_buffer)
  /\ ~oob /\ ~underflow

\* C26: after construction and after every write and end_msg,
\* m_buffer_pos < main_block_mod + final_minimum, hence at most
\* 2*main_block_mod, the buffer size; no copy or callback of write leaves
\* the buffer and the subtraction of line 48 does not wrap around.
C26_Bounds == constructed = "yes" => WithinBounds

\* What breaks C26: a filter built with a main_block_mod of half the range
\* of size_t has a buffer of 2*main_block_mod mod 2^w = 0 bytes, and its
\* first write of one byte copies that byte beyond the buffer.
C26_WrappedBuffer ==
  /\ constructed = "yes" /\ m_main_block_mod = HalfSize /\ m_final_minimum = 0
  /\ m_buffer = <<>> /\ n_stream = 1 /\ oob

\* C26 holds of every filter whose 2*main_block_mod fits size_t.
C26_SoundBounds ==
  Sound => (WithinBounds /\ Len(m_buffer) = 2 * m_main_block_mod)

\* The bounds at work: the buffer full to its last byte during a write
\* (a block callback made with 2*main_block_mod bytes held).
C26_FullBuffer ==
  /\ Sound
  /\ \E i \in 1..Len(calls) :
        calls[i].from = "buffer" /\ calls[i].held = 2 * m_main_block_mod

C27_ZeroBlock ==
  constructed = "Invalid_Argument" /\ m_main_block_mod = 0 /\ m_final_minimum = 0

C27_MinimumTooLarge ==
  constructed = "Invalid_Argument" /\ m_main_block_mod = 2 /\ m_final_minimum = 3

\* ------------------------------------------------ claims: the KAT harness

\* run_one_test is past the encapsulation step and its inspection.
AfterEncaps == kat_pc \in {"decaps", "returned"} /\ Len(kat_inspected) = 2

\* C28: after the encapsulation step run_one_test hands rng_encaps to
\* inspect_rng_after_encaps, so that the confirmation recorded passes
\* exactly when all bytes prepared for encapsulation were drawn; rng_keygen
\* is handed to inspect_rng_after_keygen alone.
C28_EncapsRngInspected ==
  AfterEncaps
    => /\ kat_inspected = <<"rng_keygen", "rng_encaps">>
       /\ kat_result[2].what = "All prepared random bits used for encapsulation"
       /\ (kat_result[2].passed <=> rng_encaps = 0)

\* What breaks C28: encapsulation left a prepared byte in rng_encaps, and
\* the confirmation for encapsulation passed, rng_keygen being empty.
C28_LeftoverUnnoticed ==
  /\ AfterEncaps /\ rng_encaps = 1 /\ rng_keygen = 0
  /\ kat_inspected[2] = "rng_keygen"
  /\ kat_result[2].passed

\* The other way round: all encapsulation bytes drawn, and the
\* confirmation for encapsulation fails over a byte left in rng_keygen.
C28_FalseAlarm ==
  /\ AfterEncaps /\ rng_encaps = 0 /\ rng_keygen = 1
  /\ ~kat_result[2].passed /\ ~kat_result[1].passed
====
